---- MODULE Spec2Model ----
(***************************************************************************)
(* AgentBaseClass of cntk/contrib/deepRL/agent/agent.py: classification of *)
(* the observation space, optional discretization of a Box space and the   *)
(* conversion of a raw observation into the input of the network.          *)
(*                                                                         *)
(* Python values are records tagged by `kind'; an ndarray carries its      *)
(* shape, its dtype name and its elements in row-major order.              *)
(***************************************************************************)
EXTENDS Integers, Sequences, FiniteSets, TLC

VARIABLES
    phase,      \* "new" before AgentBaseClass(o_space, a_space), then "live" or "failed"
    o_space,    \* constructor argument: observation space
    a_space,    \* constructor argument: action space
    agent,      \* the constructed object (its attributes), None when __init__ raised
    last        \* the call whose result the caller holds: operation, argument, result

vars == <<phase, o_space, a_space, agent, last>>

----------------------------------------------------------------------------
(* Bounds of the model *)

MaxN == 3            \* largest n of a Discrete space
MaxDim == 2          \* largest number of components of an array-valued space
MaxResolution == 2   \* largest discretization resolution
MaxActions == 2      \* largest n of the action space

----------------------------------------------------------------------------
(* Python values *)

None == [kind |-> "None"]
PyInt(n) == [kind |-> "int", v |-> n]
PyStr(s) == [kind |-> "str", v |-> s]
PyTuple(s) == [kind |-> "tuple", items |-> s]
NdArray(shape, dtype, data) ==
    [kind |-> "ndarray", shape |-> shape, dtype |-> dtype, data |-> data]

NoError == "None"

RECURSIVE Product(_)
Product(s) == IF s = <<>> THEN 1 ELSE Head(s) * Product(Tail(s))

RECURSIVE Power(_, _)
Power(b, e) == IF e = 0 THEN 1 ELSE b * Power(b, e - 1)

Zeros(n) == [i \in 1..n |-> 0]

\* the dtype names that occur; 'int64' is what astype(int) yields
DTypes == {"uint8", "int64", "float32", "float64"}
IntegerDTypes == {"uint8", "int64"}
Elements == {0, 1}

----------------------------------------------------------------------------
(* gym spaces *)

Discrete(n) == [tag |-> "Discrete", n |-> n, shape |-> <<>>]
MultiBinary(n) == [tag |-> "MultiBinary", n |-> n, shape |-> <<n>>]
Box(shape) == [tag |-> "Box", shape |-> shape, low |-> 0, high |-> 1]
MultiDiscrete(k) == [tag |-> "MultiDiscrete", shape |-> <<k>>]
TupleSpace == [tag |-> "Tuple", shape |-> <<>>]

isinstance(space, tag) == space.tag = tag

BoxShapes == {<<d>> : d \in 1..MaxDim} \cup {<<1, MaxDim>>}
BoxSpaces == {Box(s) : s \in BoxShapes}
ObservationSpaces ==
    {Discrete(n) : n \in 1..MaxN} \cup {MultiBinary(n) : n \in 1..MaxDim}
        \cup BoxSpaces \cup {MultiDiscrete(k) : k \in 1..MaxDim} \cup {TupleSpace}
ActionSpaces == {Discrete(n) : n \in 1..MaxActions} \cup {Box(<<1>>)}

----------------------------------------------------------------------------
(* BoxSpaceDiscretizer (shared/discretize.py) *)

BoxSpaceDiscretizer(space, resolution) ==
    [kind |-> "BoxSpaceDiscretizer", space |-> space, resolution |-> resolution,
     num_states |-> Power(resolution, Product(space.shape))]

Clip(v, lo, hi) == IF v < lo THEN lo ELSE IF v > hi THEN hi ELSE v

Bucket(d, v) ==
    Clip(((v - d.space.low) * d.resolution) \div (d.space.high - d.space.low),
         0, d.resolution - 1)

RECURSIVE MixedRadix(_, _, _)
MixedRadix(d, data, acc) ==
    IF data = <<>> THEN acc
    ELSE MixedRadix(d, Tail(data), acc * d.resolution + Bucket(d, Head(data)))

\* the components of a value laid over the box (a scalar or a shorter array
\* is repeated over the components of the box)
Broadcast(value, size) ==
    IF value.kind = "int"
    THEN [i \in 1..size |-> value.v]
    ELSE [i \in 1..size |-> value.data[((i - 1) % Len(value.data)) + 1]]

\* discretize(value): the index of the bucket the value falls into
Discretizer_discretize(d, value) ==
    [ret |-> PyInt(MixedRadix(d, Broadcast(value, Product(d.space.shape)), 0)),
     exc |-> NoError]

----------------------------------------------------------------------------
(* External preprocessor, attached by a concrete agent *)

Preprocessors ==
    {[kind |-> "Preprocessor", output_shape |-> s, output_dtype |-> t] :
        s \in {<<1, 1>>}, t \in {"uint8", "float64"}}

Preprocessor_preprocess(p, o) ==
    NdArray(p.output_shape, p.output_dtype, Zeros(Product(p.output_shape)))

----------------------------------------------------------------------------
(* AgentBaseClass *)

ValidActionSpace(a) == isinstance(a, "Discrete")

\* mutant: the check of the observation space lets a Tuple space through
ValidObservationSpace_AcceptsTuple(o) ==
    \/ isinstance(o, "Discrete")
    \/ isinstance(o, "MultiBinary")
    \/ isinstance(o, "Box")
    \/ isinstance(o, "MultiDiscrete")
    \/ isinstance(o, "Tuple")

ValidObservationSpace(o) ==
    \/ isinstance(o, "Discrete")
    \/ isinstance(o, "MultiBinary")
    \/ isinstance(o, "Box")
    \/ isinstance(o, "MultiDiscrete")

InitNumStates(o) == IF isinstance(o, "Discrete") THEN PyInt(o.n) ELSE None

\* mutant: the native shape is taken for every space
InitShapeOfInputs_NativeShape(o) == PyTuple(o.shape)

InitShapeOfInputs(o) ==
    IF isinstance(o, "Discrete") \/ isinstance(o, "MultiBinary")
    THEN PyTuple(<<o.n>>)
    ELSE PyTuple(o.shape)

\* the constructor: the new object, or the error it raises (no object is returned)
__init__(o, a) ==
    IF ~ ValidActionSpace(a)
    THEN [self |-> None, exc |-> "ValueError: action space"]
    ELSE IF ~ ValidObservationSpace(o)
    THEN [self |-> None, exc |-> "ValueError: observation space"]
    ELSE [self |->
            [_num_actions |-> PyInt(a.n),
             _space_discretizer |-> None,
             _discrete_observation_space |-> isinstance(o, "Discrete"),
             _num_states |-> InitNumStates(o),
             _shape_of_inputs |-> InitShapeOfInputs(o),
             _preprocessor |-> None,
             _best_model |-> None],
          exc |-> NoError]

\* mutant: the space is no longer marked discrete
_discretize_observation_space_NoFlag(self, space, discretization_resolution) ==
    IF isinstance(space, "Box")
    THEN LET d == BoxSpaceDiscretizer(space, discretization_resolution)
         IN  [self |-> [self EXCEPT
                          !._space_discretizer = d,
                          !._num_states = PyInt(d.num_states),
                          !._shape_of_inputs = PyTuple(<<d.num_states>>)],
              exc |-> NoError]
    ELSE [self |-> self, exc |-> "ValueError"]

\* mutant: the shape of the inputs is not updated
_discretize_observation_space_StaleShape(self, space, discretization_resolution) ==
    IF isinstance(space, "Box")
    THEN LET d == BoxSpaceDiscretizer(space, discretization_resolution)
         IN  [self |-> [self EXCEPT
                          !._space_discretizer = d,
                          !._discrete_observation_space = TRUE,
                          !._num_states = PyInt(d.num_states)],
              exc |-> NoError]
    ELSE [self |-> self, exc |-> "ValueError"]

\* mutant: the space is marked discrete before its type is checked
_discretize_observation_space_MarksFirst(self, space, discretization_resolution) ==
    IF isinstance(space, "Box")
    THEN LET d == BoxSpaceDiscretizer(space, discretization_resolution)
         IN  [self |-> [self EXCEPT
                          !._space_discretizer = d,
                          !._discrete_observation_space = TRUE,
                          !._num_states = PyInt(d.num_states),
                          !._shape_of_inputs = PyTuple(<<d.num_states>>)],
              exc |-> NoError]
    ELSE [self |-> [self EXCEPT !._discrete_observation_space = TRUE],
          exc |-> "ValueError"]

_discretize_observation_space(self, space, discretization_resolution) ==
    IF isinstance(space, "Box")
    THEN LET d == BoxSpaceDiscretizer(space, discretization_resolution)
         IN  [self |-> [self EXCEPT
                          !._space_discretizer = d,
                          !._discrete_observation_space = TRUE,
                          !._num_states = PyInt(d.num_states),
                          !._shape_of_inputs = PyTuple(<<d.num_states>>)],
              exc |-> NoError]
    ELSE [self |-> self, exc |-> "ValueError"]

\* mutant: the discretizer is not applied
_discretize_state_if_necessary_Skipped(self, state) ==
    [ret |-> state, exc |-> NoError]

_discretize_state_if_necessary(self, state) ==
    IF self._space_discretizer # None
    THEN Discretizer_discretize(self._space_discretizer, state)
    ELSE [ret |-> state, exc |-> NoError]

\* mutant: the 1 is written one position too far
IndexedPositions_OffByOne(index, n) ==
    IF index.kind = "int" /\ index.v + 1 < n /\ index.v + 1 >= -n
    THEN [ok |-> TRUE, at |-> {(index.v + 1 + n) % n}]
    ELSE [ok |-> FALSE, at |-> {}]

\* a[index] = 1 on a vector of n elements: the positions written, or {} with ok FALSE
IndexedPositions(index, n) ==
    IF index.kind = "int"
    THEN IF index.v >= 0 /\ index.v < n THEN [ok |-> TRUE, at |-> {index.v}]
         ELSE IF index.v < 0 /\ index.v >= -n THEN [ok |-> TRUE, at |-> {index.v + n}]
         ELSE [ok |-> FALSE, at |-> {}]
    ELSE IF index.kind = "ndarray" /\ index.dtype \in IntegerDTypes
              /\ \A k \in DOMAIN index.data : index.data[k] < n
    THEN [ok |-> TRUE, at |-> {index.data[k] : k \in DOMAIN index.data}]
    ELSE [ok |-> FALSE, at |-> {}]

\* mutant: the vector has one element too many
_index_to_vector_ExtraSlot(index, dimension) ==
    IF dimension.kind # "int"
    THEN [ret |-> None, exc |-> "TypeError"]
    ELSE LET w == IndexedPositions(index, dimension.v)
         IN  IF w.ok
             THEN [ret |-> NdArray(<<dimension.v + 1>>, "float64",
                                   [k \in 1..(dimension.v + 1) |->
                                        IF (k - 1) \in w.at THEN 1 ELSE 0]),
                   exc |-> NoError]
             ELSE [ret |-> None, exc |-> "IndexError"]

_index_to_vector(index, dimension) ==
    IF dimension.kind # "int"
    THEN [ret |-> None, exc |-> "TypeError"]
    ELSE LET w == IndexedPositions(index, dimension.v)
         IN  IF w.ok
             THEN [ret |-> NdArray(<<dimension.v>>, "float64",
                                   [k \in 1..dimension.v |-> IF (k - 1) \in w.at THEN 1 ELSE 0]),
                   exc |-> NoError]
             ELSE [ret |-> None, exc |-> "IndexError"]

astype(o, dtype) == [o EXCEPT !.dtype = dtype]

\* mutant: float64 is not converted
ConvertDType_KeepsFloat64(o) ==
    IF o.kind # "ndarray"
    THEN [ret |-> None, exc |-> "AttributeError"]
    ELSE IF o.dtype = "uint8"
    THEN [ret |-> astype(o, "int64"), exc |-> NoError]
    ELSE [ret |-> o, exc |-> NoError]

\* the type conversion at the end of _preprocess
ConvertDType(o) ==
    IF o.kind # "ndarray"
    THEN [ret |-> None, exc |-> "AttributeError"]
    ELSE IF o.dtype = "uint8"
    THEN [ret |-> astype(o, "int64"), exc |-> NoError]
    ELSE IF o.dtype = "float64"
    THEN [ret |-> astype(o, "float32"), exc |-> NoError]
    ELSE [ret |-> o, exc |-> NoError]

\* stages: the value after discretization, after one-hot encoding and after
\* the external preprocessor (None from the stage that raised onwards)
_preprocess(self, state) ==
    LET d == _discretize_state_if_necessary(self, state)
        v == IF d.exc # NoError THEN d
             ELSE IF self._discrete_observation_space
             THEN _index_to_vector(d.ret, self._num_states)
             ELSE d
        p == IF v.exc # NoError THEN v
             ELSE IF self._preprocessor # None
             THEN [ret |-> Preprocessor_preprocess(self._preprocessor, v.ret),
                   exc |-> NoError]
             ELSE v
        t == IF p.exc # NoError THEN p ELSE ConvertDType(p.ret)
    IN  [self |-> self, ret |-> t.ret, exc |-> t.exc,
         stages |-> <<d.ret, v.ret, p.ret>>]

\* the policy of the concrete agent: (action, debug_info)
_choose_action(self, state, pick) ==
    PyTuple(<<PyInt(pick), PyStr("debug_info")>>)

\* mutant: the debug information is returned in place of the action
evaluate_ReturnsDebugInfo(self, o, pick) ==
    LET s == _preprocess(self, o)
    IN  IF s.exc # NoError
        THEN [self |-> s.self, ret |-> None, exc |-> s.exc,
              state |-> None, chosen |-> None]
        ELSE LET c == _choose_action(s.self, s.ret, pick)
             IN  [self |-> s.self, ret |-> c.items[2], exc |-> NoError,
                  state |-> s.ret, chosen |-> c]

evaluate(self, o, pick) ==
    LET s == _preprocess(self, o)
    IN  IF s.exc # NoError
        THEN [self |-> s.self, ret |-> None, exc |-> s.exc,
              state |-> None, chosen |-> None]
        ELSE LET c == _choose_action(s.self, s.ret, pick)
             IN  [self |-> s.self, ret |-> c.items[1], exc |-> NoError,
                  state |-> s.ret, chosen |-> c]

----------------------------------------------------------------------------
(* Inputs *)

DiscretizeSpaces ==
    BoxSpaces \cup {Discrete(1), MultiBinary(1), MultiDiscrete(1), TupleSpace}

ArrayShapes == BoxShapes
Arrays ==
    UNION {{NdArray(s, t, data) : t \in DTypes, data \in [1..Product(s) -> Elements]} :
            s \in ArrayShapes}
Observations == {PyInt(v) : v \in (-(MaxN + 1))..MaxN} \cup Arrays

----------------------------------------------------------------------------
(* The agent's life *)

NoCall == [op |-> "none"]

Init ==
    /\ phase = "new"
    /\ o_space \in ObservationSpaces
    /\ a_space \in ActionSpaces
    /\ agent = None
    /\ last = NoCall

Construct ==
    /\ phase = "new"
    /\ LET r == __init__(o_space, a_space)
       IN  /\ agent' = r.self
           /\ phase' = IF r.exc = NoError THEN "live" ELSE "failed"
           /\ last' = [op |-> "__init__", exc |-> r.exc]
    /\ UNCHANGED <<o_space, a_space>>

\* a concrete agent installs its external preprocessor
AttachPreprocessor ==
    /\ phase = "live"
    /\ last = NoCall
    /\ \E p \in Preprocessors :
        /\ agent' = [agent EXCEPT !._preprocessor = p]
        /\ last' = [op |-> "attach", arg |-> p, exc |-> NoError]
    /\ UNCHANGED <<phase, o_space, a_space>>

DiscretizeObservationSpace ==
    /\ phase = "live"
    /\ last = NoCall
    /\ \E space \in DiscretizeSpaces, resolution \in 1..MaxResolution :
        LET r == _discretize_observation_space(agent, space, resolution)
        IN  /\ agent' = r.self
            /\ last' = [op |-> "_discretize_observation_space",
                        arg |-> <<space, resolution>>, exc |-> r.exc]
    /\ UNCHANGED <<phase, o_space, a_space>>

Preprocess ==
    /\ phase = "live"
    /\ last = NoCall
    /\ \E o \in Observations :
        LET r == _preprocess(agent, o)
        IN  /\ agent' = r.self
            /\ last' = [op |-> "_preprocess", arg |-> o, ret |-> r.ret,
                        exc |-> r.exc, stages |-> r.stages]
    /\ UNCHANGED <<phase, o_space, a_space>>

Evaluate ==
    /\ phase = "live"
    /\ last = NoCall
    /\ \E o \in Observations, pick \in 0..(agent._num_actions.v - 1) :
        LET r == evaluate(agent, o, pick)
        IN  /\ agent' = r.self
            /\ last' = [op |-> "evaluate", arg |-> o, ret |-> r.ret, exc |-> r.exc,
                        state |-> r.state, chosen |-> r.chosen]
    /\ UNCHANGED <<phase, o_space, a_space>>

\* the caller is done with the result of the call
Return ==
    /\ phase = "live"
    /\ last # NoCall
    /\ last' = NoCall
    /\ UNCHANGED <<phase, o_space, a_space, agent>>

Next ==
    \/ Construct
    \/ Return
    \/ AttachPreprocessor
    \/ DiscretizeObservationSpace
    \/ Preprocess
    \/ Evaluate

Spec == Init /\ [][Next]_vars
----------------------------------------------------------------------------
(* Properties *)

Discretize == "_discretize_observation_space"

\* a is the vector of n elements with a 1 at position i and 0 elsewhere
IsOneHot(a, n, i) ==
    /\ a.kind = "ndarray"
    /\ a.shape = <<n>>
    /\ DOMAIN a.data = 1..n
    /\ \A k \in 1..n : a.data[k] = (IF k = i + 1 THEN 1 ELSE 0)

SupportedTags == {"Discrete", "MultiBinary", "Box", "MultiDiscrete"}

\* the observation is one the environment of this observation space produces
Conforms(space, o) ==
    IF space.tag = "Discrete"
    THEN o.kind = "int" /\ o.v \in 0..(space.n - 1)
    ELSE o.kind = "ndarray" /\ o.shape = space.shape

\* C1: on an agent built for a Discrete observation space of cardinality n,
\* with no discretizer and no external preprocessor, _preprocess(i) for i in
\* 0..n-1 returns the vector of length n with a 1 at position i and 0 elsewhere.
C1_OneHotOfDiscreteIndex ==
    (/\ phase = "live"
     /\ last.op = "_preprocess"
     /\ o_space.tag = "Discrete"
     /\ agent._space_discretizer = None
     /\ agent._preprocessor = None
     /\ last.arg.kind = "int"
     /\ last.arg.v \in 0..(o_space.n - 1))
    => /\ last.exc = NoError
       /\ IsOneHot(last.ret, o_space.n, last.arg.v)

C1_Witness ==
    /\ phase = "live"
    /\ last.op = "_preprocess"
    /\ o_space = Discrete(3)
    /\ agent._space_discretizer = None
    /\ agent._preprocessor = None
    /\ last.arg = PyInt(1)
    /\ last.ret.data = <<0, 1, 0>>

\* what a successful _discretize_observation_space leaves behind
DiscretizedConfiguration ==
    (phase = "live" /\ last.op = Discretize /\ last.exc = NoError)
    => /\ agent._space_discretizer # None
       /\ agent._space_discretizer.space = last.arg[1]
       /\ agent._space_discretizer.resolution = last.arg[2]
       /\ agent._discrete_observation_space
       /\ agent._num_states = PyInt(agent._space_discretizer.num_states)
       /\ agent._shape_of_inputs = PyTuple(<<agent._num_states.v>>)

\* the first two steps of _preprocess on an agent with a discretizer
DiscretizedThenEncoded ==
    LET d == agent._space_discretizer
    IN  /\ last.exc = NoError
        /\ last.stages[1].kind = "int"
        /\ last.stages[1].v \in 0..(d.num_states - 1)
        /\ last.stages[1].v = MixedRadix(d, Broadcast(last.arg, Product(d.space.shape)), 0)
        /\ IsOneHot(last.stages[2], d.num_states, last.stages[1].v)

\* C2 as stated: after a successful _discretize_observation_space with a Box
\* space the agent is discrete-index, _num_states is the discretizer's
\* num_states, _shape_of_inputs is (_num_states,), and every later
\* _preprocess(raw) returns the one-hot vector, of the length of the
\* discretizer's state count, of the index the discretizer maps raw to.
C2_Original ==
    /\ DiscretizedConfiguration
    /\ (phase = "live" /\ last.op = "_preprocess" /\ agent._space_discretizer # None)
       => /\ DiscretizedThenEncoded
          /\ IsOneHot(last.ret, agent._space_discretizer.num_states, last.stages[1].v)

\* C2 as amended: after a successful _discretize_observation_space with a Box
\* space the agent is discrete-index, _num_states is the discretizer's
\* num_states, _shape_of_inputs is (_num_states,), and every later
\* _preprocess(raw) maps raw to the discretizer's index and one-hot encodes it
\* in a vector of the length of the discretizer's state count; that vector is
\* what is returned when no external preprocessor is attached, and what the
\* external preprocessor is applied to when one is.
C2_Amended ==
    /\ DiscretizedConfiguration
    /\ (phase = "live" /\ last.op = "_preprocess" /\ agent._space_discretizer # None)
       => /\ DiscretizedThenEncoded
          /\ agent._preprocessor = None
             => IsOneHot(last.ret, agent._space_discretizer.num_states, last.stages[1].v)
          /\ agent._preprocessor # None
             => /\ last.stages[3].shape = agent._preprocessor.output_shape
                /\ last.ret.shape = agent._preprocessor.output_shape

C2_Witness ==
    /\ phase = "live"
    /\ last.op = "_preprocess"
    /\ o_space.tag = "Box"
    /\ agent._space_discretizer # None
    /\ agent._space_discretizer.num_states = 4
    /\ agent._preprocessor = None
    /\ last.arg.kind = "ndarray"
    /\ last.ret.data = <<0, 0, 0, 1>>

\* C3: in every state of a constructed agent _num_states is defined exactly
\* when _discrete_observation_space is true, and _shape_of_inputs is defined.
C3_NumStatesIffDiscrete ==
    phase = "live"
    => /\ (agent._num_states # None) <=> agent._discrete_observation_space
       /\ agent._num_states # None => agent._num_states.kind = "int"
       /\ agent._shape_of_inputs # None
       /\ agent._shape_of_inputs.kind = "tuple"

C3_Witness ==
    /\ phase = "live"
    /\ last.op = Discretize
    /\ last.exc # NoError
    /\ agent._num_states = None
    /\ ~ agent._discrete_observation_space

\* C4: right after a successful construction _shape_of_inputs is (n,) for a
\* Discrete or MultiBinary observation space of cardinality n and the native
\* shape of the space for Box and MultiDiscrete, whatever the action space.
C4_ShapeAtConstruction ==
    (phase = "live" /\ last.op = "__init__")
    => /\ o_space.tag \in {"Discrete", "MultiBinary"}
          => agent._shape_of_inputs = PyTuple(<<o_space.n>>)
       /\ o_space.tag \in {"Box", "MultiDiscrete"}
          => agent._shape_of_inputs = PyTuple(o_space.shape)

C4_Witness ==
    /\ phase = "live"
    /\ last.op = "__init__"
    /\ o_space = Discrete(3)
    /\ a_space = Discrete(2)
    /\ agent._shape_of_inputs = PyTuple(<<3>>)

\* C5: with no external preprocessor attached, _preprocess of an observation
\* that conforms to the observation space returns an array of the shape
\* _shape_of_inputs; for a Box space without discretizer that shape is the
\* native shape of the space and is the shape of the observation passed in.
C5_OutputShapeIsShapeOfInputs ==
    (/\ phase = "live"
     /\ last.op = "_preprocess"
     /\ agent._preprocessor = None
     /\ Conforms(o_space, last.arg))
    => /\ last.exc = NoError
       /\ last.ret.kind = "ndarray"
       /\ PyTuple(last.ret.shape) = agent._shape_of_inputs
       /\ (o_space.tag = "Box" /\ agent._space_discretizer = None)
          => /\ agent._shape_of_inputs = PyTuple(o_space.shape)
             /\ last.ret.shape = last.arg.shape
             /\ last.ret.data = last.arg.data

C5_Witness ==
    /\ phase = "live"
    /\ last.op = "_preprocess"
    /\ agent._preprocessor = None
    /\ agent._space_discretizer = None
    /\ o_space = Box(<<1, 2>>)
    /\ Conforms(o_space, last.arg)
    /\ last.ret.shape = <<1, 2>>

\* C6: construction fails exactly when the action space is not Discrete or the
\* observation space is none of Discrete, MultiBinary, Box, MultiDiscrete; a
\* failed construction leaves no agent behind, a successful one does.
C6_ConstructionFailsOnUnsupportedSpaces ==
    phase # "new"
    => /\ phase = "failed"
          <=> (a_space.tag # "Discrete" \/ o_space.tag \notin SupportedTags)
       /\ phase = "failed" => (agent = None /\ last.exc # NoError)
       /\ a_space.tag # "Discrete" => last.exc = "ValueError: action space"
       /\ phase = "live" => (agent # None /\ agent._num_actions = PyInt(a_space.n))

C6_Witness ==
    /\ phase = "failed"
    /\ a_space.tag = "Discrete"
    /\ o_space.tag = "Tuple"
    /\ agent = None

\* C7: _discretize_observation_space raises exactly when the space passed is
\* not a Box, and then leaves the agent as it was before the call.
C7_DiscretizeRejectsNonBox ==
    [][(last'.op = Discretize /\ last = NoCall)
       => /\ last'.exc # NoError <=> last'.arg[1].tag # "Box"
          /\ last'.exc # NoError => agent' = agent]_vars

C7_Witness ==
    /\ phase = "live"
    /\ last.op = Discretize
    /\ last.exc # NoError
    /\ last.arg[1].tag = "MultiDiscrete"
    /\ agent._space_discretizer # None

\* C8: the type conversion is the last step of _preprocess and acts on the
\* value left by discretization, one-hot encoding and the external
\* preprocessor: uint8 is returned as an integer type, float64 as float32, any
\* other type as it is; so no result is uint8 or float64, and the one-hot
\* vector of a discrete observation is returned as float32.
C8_DTypeNormalizedLast ==
    (phase = "live" /\ last.op = "_preprocess" /\ last.exc = NoError)
    => LET before == last.stages[3]
       IN  /\ before.kind = "ndarray"
           /\ agent._preprocessor # None
              => before.dtype = agent._preprocessor.output_dtype
           /\ before.dtype = "uint8"
              => last.ret.dtype \in (IntegerDTypes \ {"uint8"})
           /\ before.dtype = "float64" => last.ret.dtype = "float32"
           /\ before.dtype \notin {"uint8", "float64"} => last.ret.dtype = before.dtype
           /\ last.ret.dtype \notin {"uint8", "float64"}
           /\ last.ret.shape = before.shape
           /\ last.ret.data = before.data
           /\ (agent._discrete_observation_space /\ agent._preprocessor = None)
              => last.ret.dtype = "float32"

C8_Witness ==
    /\ phase = "live"
    /\ last.op = "_preprocess"
    /\ last.exc = NoError
    /\ agent._preprocessor # None
    /\ agent._discrete_observation_space
    /\ last.stages[2].dtype = "float64"
    /\ last.stages[3].dtype = "uint8"
    /\ last.ret.dtype = "int64"

\* C9: evaluate(o) returns the action of the pair _choose_action gives for
\* _preprocess(o) (and raises when _preprocess raises); evaluate and
\* _preprocess leave every attribute of the agent as it was.
C9_EvaluateIsPure ==
    [][(last = NoCall /\ last'.op \in {"evaluate", "_preprocess"})
       => /\ agent' = agent
          /\ last'.op = "evaluate"
             => LET s == _preprocess(agent, last'.arg)
                IN  /\ last'.exc = s.exc
                    /\ last'.state = s.ret
                    /\ last'.exc = NoError
                       => /\ last'.chosen.kind = "tuple"
                          /\ Len(last'.chosen.items) = 2
                          /\ last'.ret = last'.chosen.items[1]
                          /\ last'.ret.kind = "int"
                          /\ last'.ret.v \in 0..(agent._num_actions.v - 1)
                          /\ last'.chosen = _choose_action(agent, s.ret, last'.ret.v)]_vars

C9_Witness ==
    /\ phase = "live"
    /\ last.op = "evaluate"
    /\ last.exc = NoError
    /\ agent._preprocessor # None
    /\ agent._space_discretizer # None
    /\ last.ret = PyInt(1)

\* C10: in every state of a constructed agent, a discrete observation space
\* has _shape_of_inputs = (_num_states,), and an attached discretizer means
\* the space is discrete with _num_states the discretizer's num_states; the
\* discretizer is the one of the last successful call, whatever observation
\* space the agent was constructed with.
C10_DiscreteConfigurationConsistent ==
    phase = "live"
    => /\ agent._discrete_observation_space
          => /\ agent._num_states.kind = "int"
             /\ agent._shape_of_inputs = PyTuple(<<agent._num_states.v>>)
       /\ agent._space_discretizer # None
          => /\ agent._discrete_observation_space
             /\ agent._num_states = PyInt(agent._space_discretizer.num_states)
       /\ (last.op = Discretize /\ last.exc = NoError)
          => /\ agent._space_discretizer # None
             /\ agent._space_discretizer.space = last.arg[1]
             /\ agent._space_discretizer.resolution = last.arg[2]

C10_Witness ==
    /\ phase = "live"
    /\ o_space = Discrete(3)
    /\ last.op = Discretize
    /\ last.exc = NoError
    /\ agent._space_discretizer # None
    /\ agent._num_states = PyInt(4)
    /\ agent._shape_of_inputs = PyTuple(<<4>>)
====
